---- MODULE Spec2Model ----
(***************************************************************************)
(* Career Tracker. The API (backend/server.js): a collection of            *)
(* job-application records kept in one JSON file, read whole and rewritten *)
(* whole by the Express route handlers. The client (the React component    *)
(* App): its copy of the collection, the list it renders from it, its form *)
(* and the requests it sends.                                              *)
(*                                                                         *)
(* JavaScript values are modelled as follows.                              *)
(*   - a text field (company, role) is a record [t, s]: t is the typeof    *)
(*     tag ("undefined", "number", "string") and s the string as the       *)
(*     sequence of its tokens, a token being a run of non-blank characters *)
(*     or one blank " ";                                                   *)
(*   - date and status are strings, "" standing for a missing (undefined)  *)
(*     or empty value: both are falsy and the code tests only falsiness;   *)
(*   - a payload says with hasId whether it carries an id property;        *)
(*   - a route parameter (:id) is the sequence of its characters;          *)
(*   - location and notes are copied verbatim and read by no handler: they *)
(*     are left out of the records.                                        *)
(***************************************************************************)
EXTENDS Integers, Sequences, FiniteSets, TLC

VARIABLES
  file,   \* the array held by data/applications.json (DATA_FILE)
  req,    \* the request handled last
  resp,   \* the response sent for it
  pre,    \* the array the file held when that request arrived
  muts,   \* number of requests so far that rewrote the file
  lastCreated,  \* the record the last 201 returned, until a PUT or DELETE
                \* of its id succeeds (<<>> when there is none)
  validated,    \* a payload handed to validateApplication, and its result
  fault,        \* the file operation that failed while the last request
                \* was handled: "none", "read" or "write"
  calls,        \* the route handler calls that run interleaved: for each
                \* its position, its request, the array it read and what
                \* it made of it
  wrote,        \* the calls whose writeData has completed, in that order
  apps,         \* the client's copy of the collection (useState, App)
  filteredApps, \* the list the client renders
  loading,      \* the client shows the spinner instead of the cards
  showModal,    \* the create/edit form is open
  editingApp,   \* <<app>> while the form edits app, <<>> for null
  formData,     \* the fields of the form
  filterStatus, \* the status filter
  searchTerm,   \* the search box, a sequence of characters
  sortOrder,    \* the sort toggle: "desc" or "asc"
  net,          \* the client's requests that have no response yet
  issued,       \* number of requests the client has sent
  event,        \* the client handler that ran last, and what it decided
  applied       \* the requests whose data setApps received, in that order

serverVars == <<file, req, resp, pre, muts, lastCreated>>

concVars == <<calls, wrote>>

clientVars ==
  <<apps, filteredApps, loading, showModal, editingApp, formData,
    filterStatus, searchTerm, sortOrder>>

netVars == <<net, issued, event, applied>>

vars == <<serverVars, validated, fault, concVars, clientVars, netVars>>

----------------------------------------------------------------------------
(* Bounds of the model *)

\* requests that rewrite the file, per run
MaxMut == 2

\* route handler calls that run interleaved
MaxCalls == 2

\* requests the client sends, per run
MaxReq == 3

\* records in an array the client is sent
MaxApps == 3

----------------------------------------------------------------------------
(* JavaScript values *)

Undef == [t |-> "undefined", s |-> <<>>]
Num == [t |-> "number", s |-> <<>>]
Str(toks) == [t |-> "string", s |-> toks]

\* isNaN(x) is modelled by x = NaN; no date or id of the model is negative
NaN == -1

IsBlank(tok) == tok = " "

RECURSIVE TrimStart(_)
TrimStart(toks) ==
  IF toks # <<>> /\ IsBlank(Head(toks)) THEN TrimStart(Tail(toks)) ELSE toks

RECURSIVE TrimEnd(_)
TrimEnd(toks) ==
  IF toks # <<>> /\ IsBlank(toks[Len(toks)])
  THEN TrimEnd(SubSeq(toks, 1, Len(toks) - 1))
  ELSE toks

\* String.prototype.trim
Trim(toks) == TrimEnd(TrimStart(toks))

\* !v for a text field: undefined and "" are falsy (the number taken is not 0)
Falsy(v) == v.t = "undefined" \/ (v.t = "string" /\ v.s = <<>>)

\* Date.parse, in days since the epoch, for the date strings of the model
DateParse(d) ==
  CASE d = "2026-01-03" -> 20456
    [] d = "2026-01-05" -> 20458
    [] d = "2026-01-05T00:00:00Z" -> 20458
    [] d = "2026-01-08" -> 20461
    [] d = "2026-01-10" -> 20463
    [] d = "2026-01-12" -> 20465
    [] d = "2026-02-01" -> 20485
    [] OTHER -> NaN

DigitVal(c) ==
  CASE c = "0" -> 0 [] c = "1" -> 1 [] c = "2" -> 2 [] c = "3" -> 3
    [] c = "4" -> 4 [] c = "5" -> 5 [] c = "6" -> 6 [] c = "7" -> 7
    [] c = "8" -> 8 [] c = "9" -> 9 [] OTHER -> NaN

RECURSIVE ParseDigits(_, _)
ParseDigits(cs, acc) ==
  IF cs = <<>> \/ DigitVal(Head(cs)) = NaN
  THEN acc
  ELSE ParseDigits(Tail(cs), 10 * acc + DigitVal(Head(cs)))

\* parseInt(req.params.id): the leading digits, NaN when there is none
ParseInt(cs) ==
  IF cs = <<>> \/ DigitVal(Head(cs)) = NaN THEN NaN ELSE ParseDigits(cs, 0)

----------------------------------------------------------------------------
(* The data file *)

App(i, c, r, d, st) ==
  [id |-> i, company |-> c, role |-> r, date |-> d, status |-> st]

sampleData ==
  << App(1, Str(<<"Google">>),
         Str(<<"Senior", " ", "Frontend", " ", "Developer">>),
         "2026-01-10", "Interview"),
     App(2, Str(<<"Meta">>),
         Str(<<"Full", " ", "Stack", " ", "Engineer", " ", "Intern">>),
         "2026-01-08", "Applied"),
     App(3, Str(<<"Netflix">>), Str(<<"Software", " ", "Engineer">>),
         "2026-01-05", "Offer"),
     App(4, Str(<<"Amazon">>), Str(<<"SDE", " ", "Intern">>),
         "2026-01-03", "Rejected"),
     App(5, Str(<<"Microsoft">>), Str(<<"Cloud", " ", "Engineer">>),
         "2026-01-12", "Applied") >>

\* readData: the parsed content of the file
readData == file

----------------------------------------------------------------------------
(* Validation *)

validStatuses == {"Applied", "Interview", "Offer", "Rejected"}

\* a faulty variant of companyError: the blank-only test (trim) is forgotten
companyErrorNoTrim(data) ==
  IF Falsy(data.company) \/ data.company.t # "string"
  THEN <<"Company name is required">> ELSE <<>>

companyError(data) ==
  IF Falsy(data.company) \/ data.company.t # "string"
     \/ Trim(data.company.s) = <<>>
  THEN <<"Company name is required">> ELSE <<>>

roleError(data) ==
  IF Falsy(data.role) \/ data.role.t # "string" \/ Trim(data.role.s) = <<>>
  THEN <<"Role is required">> ELSE <<>>

dateError(data) ==
  IF data.date = "" \/ DateParse(data.date) = NaN
  THEN <<"Valid date is required">> ELSE <<>>

\* a faulty variant of statusError: any status that is given is taken
statusErrorMissingOnly(data) ==
  IF data.status = ""
  THEN <<"Status must be one of: Applied, Interview, Offer, Rejected">>
  ELSE <<>>

statusError(data) ==
  IF data.status = "" \/ data.status \notin validStatuses
  THEN <<"Status must be one of: Applied, Interview, Offer, Rejected">>
  ELSE <<>>

\* a faulty variant of validateApplication: it stops at the first rule broken
validateApplicationFirstOnly(data) ==
  LET errors == companyError(data) \o roleError(data) \o dateError(data)
                \o statusError(data)
      first == IF errors = <<>> THEN <<>> ELSE <<Head(errors)>>
  IN  [isValid |-> Len(first) = 0, errors |-> first]

validateApplication(data) ==
  LET errors == companyError(data) \o roleError(data) \o dateError(data)
                \o statusError(data)
  IN  [isValid |-> Len(errors) = 0, errors |-> errors]

----------------------------------------------------------------------------
(* Responses.  A response has one shape: code is the HTTP status, body the *)
(* array sent (a single object is the one-element array), errors the       *)
(* validation messages of a 400, stats the object of /api/stats and id the *)
(* id field of the DELETE success object.                                  *)

NoStats ==
  [total |-> 0, applied |-> 0, interview |-> 0, offer |-> 0, rejected |-> 0,
   successRate |-> <<>>]

Response(code, body) ==
  [code |-> code, body |-> body, errors |-> <<>>, stats |-> NoStats,
   id |-> NaN]

ValidationFailed(errors) == [Response(400, <<>>) EXCEPT !.errors = errors]

NotFound == Response(404, <<>>)

\* what a handler does: the array it leaves in the file, and its response
Outcome(applications, r) == [file |-> applications, resp |-> r]

----------------------------------------------------------------------------
(* GET /api/applications *)

\* a faulty variant of compareDates: the two directions are swapped
compareDatesSwapped(a, b, sort) ==
  IF sort = "asc"
  THEN DateParse(b.date) - DateParse(a.date)
  ELSE DateParse(a.date) - DateParse(b.date)

\* the comparator handed to Array.prototype.sort
compareDates(a, b, sort) ==
  IF sort = "asc"
  THEN DateParse(a.date) - DateParse(b.date)
  ELSE DateParse(b.date) - DateParse(a.date)

\* x put into the sorted seq behind every element that does not sort after it
RECURSIVE insertSorted(_, _, _)
insertSorted(seq, x, sort) ==
  IF seq = <<>> THEN <<x>>
  ELSE IF compareDates(Head(seq), x, sort) <= 0
       THEN <<Head(seq)>> \o insertSorted(Tail(seq), x, sort)
       ELSE <<x>> \o seq

\* Array.prototype.sort with that comparator: a stable sort
RECURSIVE sortByDate(_, _)
sortByDate(seq, sort) ==
  IF seq = <<>> THEN <<>>
  ELSE insertSorted(sortByDate(SubSeq(seq, 1, Len(seq) - 1), sort),
                    seq[Len(seq)], sort)

filterByStatus(applications, status) ==
  LET keep(a) == a.status = status IN SelectSeq(applications, keep)

\* a faulty variant of getApplications: the filtered, sorted view is written back
getApplicationsSaving(applications, status, sort) ==
  LET filtered == IF status # "" /\ status # "All"
                  THEN filterByStatus(applications, status) ELSE applications
      sorted == IF sort # "" THEN sortByDate(filtered, sort) ELSE filtered
  IN  Outcome(sorted, Response(200, sorted))

\* the query parameters are strings; "" is a parameter that is not given
getApplications(applications, status, sort) ==
  LET filtered == IF status # "" /\ status # "All"
                  THEN filterByStatus(applications, status) ELSE applications
      sorted == IF sort # "" THEN sortByDate(filtered, sort) ELSE filtered
  IN  Outcome(applications, Response(200, sorted))

----------------------------------------------------------------------------
(* GET /api/applications/:id *)

\* Array.prototype.findIndex; 0 stands for -1 (sequences start at 1)
RECURSIVE findIndexFrom(_, _, _)
findIndexFrom(applications, id, i) ==
  IF i > Len(applications) THEN 0
  ELSE IF applications[i].id = id /\ id # NaN THEN i
  ELSE findIndexFrom(applications, id, i + 1)

findIndex(applications, id) == findIndexFrom(applications, id, 1)

getApplication(applications, param) ==
  LET index == findIndex(applications, ParseInt(param))
  IN  IF index = 0 THEN Outcome(applications, NotFound)
      ELSE Outcome(applications, Response(200, <<applications[index]>>))

----------------------------------------------------------------------------
(* POST /api/applications *)

\* { id: id, ...body }: a property of the body replaces the one before it
spreadBody(id, body) ==
  App(IF body.hasId THEN body.id ELSE id,
      body.company, body.role, body.date, body.status)

\* now is the value Date.now() returns
postApplication(applications, body, now) ==
  LET validation == validateApplication(body)
      newApp == spreadBody(now, body)
  IN  IF ~validation.isValid
      THEN Outcome(applications, ValidationFailed(validation.errors))
      ELSE Outcome(Append(applications, newApp), Response(201, <<newApp>>))

----------------------------------------------------------------------------
(* PUT /api/applications/:id *)

\* a faulty variant of putApplication: an id that is not found is inserted
putApplicationUpsert(applications, param, body) ==
  LET validation == validateApplication(body)
      index == findIndex(applications, ParseInt(param))
      record == spreadBody(ParseInt(param), body)
  IN  IF ~validation.isValid
      THEN Outcome(applications, ValidationFailed(validation.errors))
      ELSE IF index = 0
           THEN Outcome(Append(applications, record), Response(200, <<record>>))
      ELSE Outcome([applications EXCEPT ![index] = record],
                   Response(200, <<record>>))

putApplication(applications, param, body) ==
  LET validation == validateApplication(body)
      index == findIndex(applications, ParseInt(param))
      updated == [applications EXCEPT
                    ![index] = spreadBody(ParseInt(param), body)]
  IN  IF ~validation.isValid
      THEN Outcome(applications, ValidationFailed(validation.errors))
      ELSE IF index = 0 THEN Outcome(applications, NotFound)
      ELSE Outcome(updated, Response(200, <<updated[index]>>))

----------------------------------------------------------------------------
(* DELETE /api/applications/:id *)

deleteApplication(applications, param) ==
  LET id == ParseInt(param)
      keep(a) == a.id # id \/ id = NaN
      filtered == SelectSeq(applications, keep)
  IN  IF Len(filtered) = Len(applications) THEN Outcome(applications, NotFound)
      ELSE Outcome(filtered, [Response(200, <<>>) EXCEPT !.id = id])

----------------------------------------------------------------------------
(* GET /api/stats *)

DigitChar(d) ==
  CASE d = 0 -> "0" [] d = 1 -> "1" [] d = 2 -> "2" [] d = 3 -> "3"
    [] d = 4 -> "4" [] d = 5 -> "5" [] d = 6 -> "6" [] d = 7 -> "7"
    [] d = 8 -> "8" [] d = 9 -> "9"

\* the decimal digits of n >= 0
RECURSIVE IntChars(_)
IntChars(n) ==
  IF n < 10 THEN <<DigitChar(n)>>
  ELSE IntChars(n \div 10) \o <<DigitChar(n % 10)>>

\* a faulty variant of toFixed2: the digits after the second are cut, not rounded
toFixed2Truncating(num, den) ==
  LET hundredths == (10000 * num) \div den
      frac == hundredths % 100
  IN  IntChars(hundredths \div 100)
      \o <<".", DigitChar(frac \div 10), DigitChar(frac % 10)>>

\* ((num / den) * 100).toFixed(2): the nearest hundredth, two digits shown
toFixed2(num, den) ==
  LET hundredths == (2 * 10000 * num + den) \div (2 * den)
      frac == hundredths % 100
  IN  IntChars(hundredths \div 100)
      \o <<".", DigitChar(frac \div 10), DigitChar(frac % 10)>>

countStatus(applications, status) == Len(filterByStatus(applications, status))

getStats(applications) ==
  LET stats ==
        [total |-> Len(applications),
         applied |-> countStatus(applications, "Applied"),
         interview |-> countStatus(applications, "Interview"),
         offer |-> countStatus(applications, "Offer"),
         rejected |-> countStatus(applications, "Rejected"),
         successRate |->
           IF Len(applications) > 0
           THEN toFixed2(countStatus(applications, "Offer"),
                         Len(applications)) \o <<"%">>
           ELSE <<"0", "%">>]
  IN  Outcome(applications, [Response(200, <<>>) EXCEPT !.stats = stats])

----------------------------------------------------------------------------
(* Requests *)

Body(hasId, id, c, r, d, st) ==
  [hasId |-> hasId, id |-> id, company |-> c, role |-> r, date |-> d,
   status |-> st]

NoBody == Body(FALSE, 0, Undef, Undef, "", "")

Acme == Str(<<"Acme">>)
SWE == Str(<<"SWE">>)

\* payloads that pass validation: one without an id property, one with the
\* id of a sample record
ValidBodies ==
  { Body(FALSE, 0, Acme, SWE, "2026-02-01", "Applied"),
    Body(TRUE, 2, Str(<<" ", "Acme", " ", "Inc">>), Str(<<"SWE", " ">>),
         "2026-01-05T00:00:00Z", "Offer") }

\* payloads that break one rule or several
InvalidBodies ==
  { Body(FALSE, 0, c, SWE, "2026-02-01", "Applied") :
      c \in {Undef, Num, Str(<<>>), Str(<<" ", " ">>)} }
  \cup
  { Body(FALSE, 0, Acme, Undef, "2026-02-01", "Applied"),
    Body(FALSE, 0, Acme, SWE, "soon", "Applied"),
    Body(FALSE, 0, Acme, SWE, "2026-02-01", "Pending"),
    Body(TRUE, 2, Str(<<" ">>), Num, "", "All") }

Bodies == ValidBodies \cup InvalidBodies

\* values Date.now() returns: a wall clock, which two requests can read in
\* the same millisecond
Clock == {101, 102}

\* the :id route parameters requests bring
Params == { <<"1">>, <<"2">>, <<"1", "0", "1">>, <<"9", "x">>, <<"x">> }

QueryStatus == {"", "All", "Interview"}
QuerySort == {"", "asc", "desc", "newest"}

Request(op, param, body, status, sort) ==
  [op |-> op, param |-> param, body |-> body, status |-> status,
   sort |-> sort]

\* the created record a later GET is expected to find: the one of a 201,
\* dropped once a PUT or DELETE addressed to its id has succeeded
Remembered(r, out) ==
  IF r.op = "create" /\ out.resp.code = 201 THEN out.resp.body
  ELSE IF /\ r.op \in {"update", "delete"}
          /\ out.resp.code = 200
          /\ lastCreated # <<>>
          /\ lastCreated[1].id = ParseInt(r.param)
       THEN <<>>
  ELSE lastCreated

Calls == 1 .. MaxCalls

NoCall ==
  [pc |-> "idle", r |-> Request("none", <<>>, NoBody, "", ""), now |-> 0,
   snap |-> <<>>, out |-> Outcome(<<>>, Response(0, <<>>))]

\* no handler call is under way
NoCalls == calls = [c \in Calls |-> NoCall] /\ wrote = <<>>

\* nothing has been handed to validateApplication on its own
NotValidating ==
  validated = [data |-> NoBody, done |-> FALSE, isValid |-> FALSE,
               errors |-> <<>>]

----------------------------------------------------------------------------
(* The client (the App component): its state                               *)
(*                                                                         *)
(* The client compares the letters of company and role, so here a text is  *)
(* the sequence of its characters. A form holds the fields handleSubmit    *)
(* reads and sends; the id, location and notes it also carries are read by *)
(* no client handler.                                                      *)

\* the date a new form starts with: today, as yyyy-mm-dd
Today == "2026-02-01"

NewForm ==
  [company |-> <<>>, role |-> <<>>, date |-> Today, status |-> "Applied"]

\* a request of the client without a response: n is its place in the order
\* of sending, id the record its path names (0: none)
ClientRequest(n, op, id) == [n |-> n, op |-> op, id |-> id]

\* what the handler that ran last did: h is the handler, id the record it
\* names (0: none), ok what it decided or was told (handleSubmit: the
\* form passed its test; handleDelete: the answer of window.confirm;
\* response: the request succeeded), op the request a response answers
Event(h, id, ok, op) == [h |-> h, id |-> id, ok |-> ok, op |-> op]

\* the useState values of App, before its first effect has run
Unmounted ==
  /\ apps = <<>>
  /\ filteredApps = <<>>
  /\ loading = TRUE
  /\ showModal = FALSE
  /\ editingApp = <<>>
  /\ formData = NewForm
  /\ filterStatus = "All"
  /\ searchTerm = <<>>
  /\ sortOrder = "desc"

\* no client runs
NoClient ==
  /\ Unmounted
  /\ net = {}
  /\ issued = 0
  /\ event = Event("none", 0, FALSE, "")
  /\ applied = <<>>

\* a run rewrites the file at most MaxMut times
WithinBudget(out) == out.file # file => muts < MaxMut

\* the handler has run to its response: its outcome is in the file and sent
Handled(r, out) ==
  /\ req' = r
  /\ pre' = file
  /\ file' = out.file
  /\ resp' = out.resp
  /\ muts' = IF out.file # file THEN muts + 1 ELSE muts
  /\ lastCreated' = Remembered(r, out)
  /\ UNCHANGED <<validated, fault, concVars, clientVars, netVars>>

----------------------------------------------------------------------------
(* The server *)

\* initDataFile writes sampleData when there is no data file and keeps the
\* file when there is one: the file an earlier run left, here the one all
\* of whose records were deleted
Init ==
  /\ file \in {sampleData, <<>>}
  /\ req = Request("start", <<>>, NoBody, "", "")
  /\ resp = Response(0, <<>>)
  /\ pre = file
  /\ muts = 0
  /\ lastCreated = <<>>
  /\ NotValidating
  /\ fault = "none"
  /\ NoCalls
  /\ NoClient

List ==
  \E status \in QueryStatus, sort \in QuerySort :
    LET out == getApplications(readData, status, sort)
    IN  /\ WithinBudget(out)
        /\ Handled(Request("list", <<>>, NoBody, status, sort), out)

Get ==
  \E param \in Params :
    LET out == getApplication(readData, param)
    IN  /\ WithinBudget(out)
        /\ Handled(Request("get", param, NoBody, "", ""), out)

Create ==
  \E body \in Bodies, now \in Clock :
    LET out == postApplication(readData, body, now)
    IN  /\ WithinBudget(out)
        /\ Handled(Request("create", <<>>, body, "", ""), out)

Update ==
  \E param \in Params, body \in Bodies :
    LET out == putApplication(readData, param, body)
    IN  /\ WithinBudget(out)
        /\ Handled(Request("update", param, body, "", ""), out)

Delete ==
  \E param \in Params :
    LET out == deleteApplication(readData, param)
    IN  /\ WithinBudget(out)
        /\ Handled(Request("delete", param, NoBody, "", ""), out)

Stats ==
  LET out == getStats(readData)
  IN  /\ WithinBudget(out)
      /\ Handled(Request("stats", <<>>, NoBody, "", ""), out)

Next == List \/ Get \/ Create \/ Update \/ Delete \/ Stats

Spec == Init /\ [][Next]_vars

----------------------------------------------------------------------------
(* validateApplication on its own: every combination of rules kept and     *)
(* broken is among the payloads.                                           *)

ValidationInputs ==
  { Body(FALSE, 0, c, r, d, st) :
      c \in {Undef, Num, Str(<<>>), Str(<<" ">>), Acme, Str(<<" ", "Acme">>)},
      r \in {Undef, Str(<<" ", " ">>), SWE},
      d \in {"", "soon", "2026-02-01"},
      st \in {"", "Pending", "applied", "Offer"} }

InitValidate ==
  /\ file = sampleData
  /\ req = Request("start", <<>>, NoBody, "", "")
  /\ resp = Response(0, <<>>)
  /\ pre = file
  /\ muts = 0
  /\ lastCreated = <<>>
  /\ fault = "none"
  /\ NoCalls
  /\ NoClient
  /\ \E data \in ValidationInputs :
       validated = [data |-> data, done |-> FALSE, isValid |-> FALSE,
                    errors |-> <<>>]

Validate ==
  /\ ~validated.done
  /\ LET validation == validateApplication(validated.data)
     IN  validated' = [validated EXCEPT !.done = TRUE,
                                        !.isValid = validation.isValid,
                                        !.errors = validation.errors]
  /\ UNCHANGED <<serverVars, fault, concVars, clientVars, netVars>>

SpecValidate == InitValidate /\ [][Validate]_vars

----------------------------------------------------------------------------
(* The server when a file operation can fail.  fs.readFile or JSON.parse   *)
(* throwing (the file is unreadable, or holds a half-written text) is a    *)
(* failed read; fs.writeFile rejecting before it has changed the file is a *)
(* failed write.  At most one operation fails per request.                 *)

\* readData: the catch block answers a failed read with the empty array
readDataOr(failed) == IF failed THEN <<>> ELSE readData

\* whether the handler of r gets to its readData call
Reads(r) ==
  r.op \in {"create", "update"} => validateApplication(r.body).isValid

\* whether the handler of r, with outcome out, gets to its writeData call
Writes(r, out) ==
  r.op \in {"create", "update", "delete"} /\ out.resp.code \in {200, 201}

\* the catch block of a route: res.status(500).json({ error, message })
ServerError == Response(500, <<>>)

\* writeData throws when the write fails, and the route answers 500; made is
\* what the handler makes of the array readData gave it
AfterWrite(f, r, made) ==
  IF f = "write" /\ Writes(r, made) THEN Outcome(file, ServerError) ELSE made

\* the file operation that did fail: f, should the handler get to it
Failed(f, r, made) ==
  IF f = "read" /\ Reads(r) THEN "read"
  ELSE IF f = "write" /\ Writes(r, made) THEN "write"
  ELSE "none"

\* the handler of r has run to its response with the file operation f failing
HandledWith(f, r, made) ==
  LET out == AfterWrite(f, r, made)
  IN  /\ req' = r
      /\ pre' = file
      /\ file' = out.file
      /\ resp' = out.resp
      /\ muts' = IF out.file # file THEN muts + 1 ELSE muts
      /\ lastCreated' = Remembered(r, out)
      /\ fault' = Failed(f, r, made)
      /\ UNCHANGED <<validated, concVars, clientVars, netVars>>

Faults == {"none", "read", "write"}

\* the payloads of the requests during which a file operation can fail
IoBodies ==
  ValidBodies \cup {Body(FALSE, 0, Acme, SWE, "2026-02-01", "Pending")}

ListIO ==
  \E f \in Faults, status \in QueryStatus, sort \in QuerySort :
    LET r == Request("list", <<>>, NoBody, status, sort)
        made == getApplications(readDataOr(f = "read"), status, sort)
    IN  /\ WithinBudget(AfterWrite(f, r, made))
        /\ HandledWith(f, r, made)

GetIO ==
  \E f \in Faults, param \in Params :
    LET r == Request("get", param, NoBody, "", "")
        made == getApplication(readDataOr(f = "read"), param)
    IN  /\ WithinBudget(AfterWrite(f, r, made))
        /\ HandledWith(f, r, made)

CreateIO ==
  \E f \in Faults, body \in IoBodies, now \in Clock :
    LET r == Request("create", <<>>, body, "", "")
        made == postApplication(readDataOr(f = "read"), body, now)
    IN  /\ WithinBudget(AfterWrite(f, r, made))
        /\ HandledWith(f, r, made)

UpdateIO ==
  \E f \in Faults, param \in Params, body \in IoBodies :
    LET r == Request("update", param, body, "", "")
        made == putApplication(readDataOr(f = "read"), param, body)
    IN  /\ WithinBudget(AfterWrite(f, r, made))
        /\ HandledWith(f, r, made)

DeleteIO ==
  \E f \in Faults, param \in Params :
    LET r == Request("delete", param, NoBody, "", "")
        made == deleteApplication(readDataOr(f = "read"), param)
    IN  /\ WithinBudget(AfterWrite(f, r, made))
        /\ HandledWith(f, r, made)

StatsIO ==
  \E f \in Faults :
    LET r == Request("stats", <<>>, NoBody, "", "")
        made == getStats(readDataOr(f = "read"))
    IN  /\ WithinBudget(AfterWrite(f, r, made))
        /\ HandledWith(f, r, made)

NextIO == ListIO \/ GetIO \/ CreateIO \/ UpdateIO \/ DeleteIO \/ StatsIO

SpecIO == Init /\ [][NextIO]_vars

----------------------------------------------------------------------------
(* Route handler calls that run interleaved.  A handler runs without       *)
(* interruption up to an await: from the arrival of the request to the     *)
(* reading of the file (await readData()), and from there to the response, *)
(* its writeData in between.  Calls of other handlers can run between the  *)
(* two.                                                                    *)

\* what the handler of request r makes of the array applications
Route(r, now, applications) ==
  CASE r.op = "create" -> postApplication(applications, r.body, now)
    [] r.op = "update" -> putApplication(applications, r.param, r.body)
    [] r.op = "delete" -> deleteApplication(applications, r.param)

\* the write requests that arrive
WriteRequests ==
  { Request("create", <<>>, body, "", "") : body \in ValidBodies }
  \cup
  { Request("update", <<"1">>, body, "", "") : body \in IoBodies }
  \cup
  { Request("delete", param, NoBody, "", "") : param \in {<<"2">>, <<"9", "x">>} }

\* a faulty variant of written: the handler works on the file as it is when
\* it writes, as if the calls were serialised
writtenAfresh(c) == Route(calls[c].r, calls[c].now, file).file

\* writeData(applications): the array the call built from what it read
written(c) == calls[c].out.file

InitCalls ==
  /\ file \in {sampleData, <<>>}
  /\ req = Request("start", <<>>, NoBody, "", "")
  /\ resp = Response(0, <<>>)
  /\ pre = file
  /\ muts = 0
  /\ lastCreated = <<>>
  /\ NotValidating
  /\ fault = "none"
  /\ NoCalls
  /\ NoClient

\* a request arrives and its handler runs up to the array readData gives it;
\* a handler that has no writeData to await responds at once
Arrive(c) ==
  \E r \in WriteRequests, now \in Clock :
    LET at == IF r.op = "create" THEN now ELSE 0
        out == Route(r, at, readData)
    IN  /\ calls[c].pc = "idle"
        /\ calls' = [calls EXCEPT ![c] =
             [pc |-> IF Writes(r, out) THEN "writing" ELSE "done",
              r |-> r, now |-> at, snap |-> readData, out |-> out]]
        /\ UNCHANGED <<serverVars, validated, fault, wrote, clientVars,
                       netVars>>

\* the call's writeData completes and it responds
Write(c) ==
  /\ calls[c].pc = "writing"
  /\ file' = written(c)
  /\ calls' = [calls EXCEPT ![c].pc = "done"]
  /\ wrote' = Append(wrote, c)
  /\ UNCHANGED <<req, resp, pre, muts, lastCreated, validated, fault,
               clientVars, netVars>>

NextCalls == \E c \in Calls : Arrive(c) \/ Write(c)

SpecCalls == InitCalls /\ [][NextCalls]_vars

----------------------------------------------------------------------------
(* The client: the rendered list *)

\* String.prototype.toLowerCase, for the letters of the model
LowerChar(c) == CASE c = "A" -> "a" [] c = "B" -> "b" [] OTHER -> c

toLowerCase(s) == [i \in DOMAIN s |-> LowerChar(s[i])]

\* String.prototype.includes: t is a run of consecutive characters of s
includes(s, t) ==
  \E k \in 0..(Len(s) - Len(t)) :
    \A i \in 1..Len(t) : s[k + i] = t[i]

\* a faulty variant of matchesSearch: the case of the letters counts
matchesSearchExactCase(app, term) ==
  \/ includes(app.company, term)
  \/ includes(app.role, term)

\* the test of the search filter
matchesSearch(app, term) ==
  \/ includes(toLowerCase(app.company), toLowerCase(term))
  \/ includes(toLowerCase(app.role), toLowerCase(term))

\* the comparator of the effect: new Date(b.date) - new Date(a.date) for
\* 'desc', the reverse otherwise
compareByDate(a, b, order) ==
  IF order = "desc"
  THEN DateParse(b.date) - DateParse(a.date)
  ELSE DateParse(a.date) - DateParse(b.date)

\* x put into the sorted seq behind every element that does not sort after it
RECURSIVE insertByDate(_, _, _)
insertByDate(seq, x, order) ==
  IF seq = <<>> THEN <<x>>
  ELSE IF compareByDate(Head(seq), x, order) <= 0
       THEN <<Head(seq)>> \o insertByDate(Tail(seq), x, order)
       ELSE <<x>> \o seq

\* filtered.sort(...): a stable sort
RECURSIVE sortedByDate(_, _)
sortedByDate(seq, order) ==
  IF seq = <<>> THEN <<>>
  ELSE insertByDate(sortedByDate(SubSeq(seq, 1, Len(seq) - 1), order),
                    seq[Len(seq)], order)

\* the filter/sort effect: what it hands to setFilteredApps
filterAndSort(all, status, term, order) ==
  LET hasStatus(app) == app.status = status
      byStatus == IF status # "All" THEN SelectSeq(all, hasStatus) ELSE all
      found(app) == matchesSearch(app, term)
      bySearch == IF term # <<>> THEN SelectSeq(byStatus, found)
                  ELSE byStatus
  IN  sortedByDate(bySearch, order)

\* the effect runs after every change of apps, filterStatus, searchTerm or
\* sortOrder
Rendered ==
  filteredApps' = filterAndSort(apps', filterStatus', searchTerm', sortOrder')

\* records the server can hold
Records ==
  { App(1, <<"A", "b">>, <<"b", "a">>, "2026-01-10", "Interview"),
    App(2, <<"a", "B">>, <<"b">>, "2026-01-08", "Applied"),
    App(3, <<"b">>, <<"B", "A">>, "2026-01-10", "Applied"),
    App(4, <<"a">>, <<"a">>, "2026-01-05", "Applied") }

\* the arrays GET can answer with: up to MaxApps records, each once
Collections ==
  { seq \in UNION { [1..n -> Records] : n \in 0..MaxApps } :
      \A i, j \in DOMAIN seq : i # j => seq[i] # seq[j] }

\* the options of the status select
FilterChoices == {"All", "Applied", "Interview", "Offer", "Rejected"}

SearchTerms == { <<>>, <<"A">>, <<"A", "B">>, <<"b", "a">>, <<"b", "b">> }

----------------------------------------------------------------------------
(* The client: its handlers *)

\* the fields of app, as setFormData(app) puts them into the form
FormOf(app) ==
  [company |-> app.company, role |-> app.role, date |-> app.date,
   status |-> app.status]

\* a faulty variant of formIncomplete: only the company is looked at
formIncompleteCompanyOnly(data) == data.company = <<>>

\* the test handleSubmit starts with: '' is falsy
formIncomplete(data) ==
  data.company = <<>> \/ data.role = <<>> \/ data.date = ""

\* a faulty variant of windowConfirm: the answer is not waited for
windowConfirmSkipped(answer) == TRUE

\* window.confirm('Delete this application?'): the user's answer
windowConfirm(answer) == answer

\* loadApplications, up to its await: the spinner is shown and the GET sent
loadApplications(pending) ==
  /\ issued < MaxReq
  /\ loading' = TRUE
  /\ net' = pending \cup {ClientRequest(issued + 1, "get", 0)}
  /\ issued' = issued + 1

\* the state of App once its mount effect has called loadApplications
InitClient ==
  /\ file = sampleData
  /\ req = Request("start", <<>>, NoBody, "", "")
  /\ resp = Response(0, <<>>)
  /\ pre = file
  /\ muts = 0
  /\ lastCreated = <<>>
  /\ NotValidating
  /\ fault = "none"
  /\ NoCalls
  /\ Unmounted
  /\ net = {ClientRequest(1, "get", 0)}
  /\ issued = 1
  /\ event = Event("mount", 0, TRUE, "get")
  /\ applied = <<>>

\* a GET is answered with data: loadApplications goes on with setApps(data)
\* and setLoading(false), and the effect renders the list
Loaded(data) ==
  \E r \in net :
    /\ r.op = "get"
    /\ net' = net \ {r}
    /\ apps' = data
    /\ loading' = FALSE
    /\ applied' = Append(applied, r.n)
    /\ event' = Event("response", 0, TRUE, "get")
    /\ UNCHANGED <<serverVars, validated, fault, concVars, showModal,
                   editingApp, formData, filterStatus, searchTerm, sortOrder,
                   issued>>
    /\ Rendered

\* a GET fails: loadApplications rejects at its await
LoadRejected ==
  \E r \in net :
    /\ r.op = "get"
    /\ net' = net \ {r}
    /\ event' = Event("response", 0, FALSE, "get")
    /\ UNCHANGED <<serverVars, validated, fault, concVars, clientVars,
                   issued, applied>>

\* a POST, PUT or DELETE succeeds: loadApplications is called
Mutated ==
  \E r \in net :
    /\ r.op # "get"
    /\ loadApplications(net \ {r})
    /\ event' = Event("response", 0, TRUE, r.op)
    /\ UNCHANGED <<serverVars, validated, fault, concVars, apps,
                   filteredApps, showModal, editingApp, formData,
                   filterStatus, searchTerm, sortOrder, applied>>

\* a POST, PUT or DELETE fails: the promise rejects and nothing handles it
MutationRejected ==
  \E r \in net :
    /\ r.op # "get"
    /\ net' = net \ {r}
    /\ event' = Event("response", 0, FALSE, r.op)
    /\ UNCHANGED <<serverVars, validated, fault, concVars, clientVars,
                   issued, applied>>

\* the Add button (app = <<>>) or the Edit button of the card of app[1]; the
\* open form covers the page, and the cards give way to the spinner
openModal(app) ==
  /\ ~showModal
  /\ app # <<>> =>
       ~loading /\ \E i \in DOMAIN filteredApps : filteredApps[i] = app[1]
  /\ editingApp' = app
  /\ formData' = IF app # <<>> THEN FormOf(app[1]) ELSE NewForm
  /\ showModal' = TRUE
  /\ event' = Event("openModal", IF app # <<>> THEN app[1].id ELSE 0,
                    TRUE, "")
  /\ UNCHANGED <<serverVars, validated, fault, concVars, apps, filteredApps,
                 loading, filterStatus, searchTerm, sortOrder, net, issued,
                 applied>>

closeModal ==
  /\ showModal
  /\ showModal' = FALSE
  /\ editingApp' = <<>>
  /\ event' = Event("closeModal", 0, TRUE, "")
  /\ UNCHANGED <<serverVars, validated, fault, concVars, apps, filteredApps,
                 loading, formData, filterStatus, searchTerm, sortOrder,
                 net, issued, applied>>

\* what the user types into the company and role inputs and the date input
FormTexts == { <<>>, <<"a">> }

FormDates == { "", "2026-01-05" }

\* an input of the form changes
setFormData(field, value) ==
  /\ showModal
  /\ formData' = [formData EXCEPT ![field] = value]
  /\ event' = Event("setFormData", 0, TRUE, "")
  /\ UNCHANGED <<serverVars, validated, fault, concVars, apps, filteredApps,
                 loading, showModal, editingApp, filterStatus, searchTerm,
                 sortOrder, net, issued, applied>>

handleSubmit ==
  /\ showModal
  /\ IF formIncomplete(formData)
     THEN /\ event' = Event("handleSubmit", 0, FALSE, "")
          /\ UNCHANGED <<clientVars, net, issued>>
     ELSE LET op == IF editingApp # <<>> THEN "put" ELSE "post"
              id == IF editingApp # <<>> THEN editingApp[1].id ELSE 0
          IN  /\ issued < MaxReq
              /\ net' = net \cup {ClientRequest(issued + 1, op, id)}
              /\ issued' = issued + 1
              /\ showModal' = FALSE
              /\ editingApp' = <<>>
              /\ event' = Event("handleSubmit", id, TRUE, op)
              /\ UNCHANGED <<apps, filteredApps, loading, formData,
                             filterStatus, searchTerm, sortOrder>>
  /\ UNCHANGED <<serverVars, validated, fault, concVars, applied>>

\* the Delete button of the card of the record id, and the user's answer
handleDelete(id, answer) ==
  /\ ~showModal
  /\ ~loading
  /\ \E i \in DOMAIN filteredApps : filteredApps[i].id = id
  /\ IF windowConfirm(answer)
     THEN /\ issued < MaxReq
          /\ net' = net \cup {ClientRequest(issued + 1, "delete", id)}
          /\ issued' = issued + 1
     ELSE UNCHANGED <<net, issued>>
  /\ event' = Event("handleDelete", id, answer, "delete")
  /\ UNCHANGED <<serverVars, validated, fault, concVars, clientVars, applied>>

\* the arrays GET answers with while the form and the buttons are used
ServerData ==
  { <<App(2, <<"a", "B">>, <<"b">>, "2026-01-08", "Applied")>>,
    <<App(1, <<"A", "b">>, <<"b", "a">>, "2026-01-10", "Interview"),
      App(2, <<"a", "B">>, <<"b">>, "2026-01-08", "Applied")>> }

NextClient ==
  \/ \E data \in ServerData : Loaded(data)
  \/ LoadRejected
  \/ Mutated
  \/ MutationRejected
  \/ \E app \in {<<>>} \cup {<<a>> : a \in Records} : openModal(app)
  \/ closeModal
  \/ \E value \in FormTexts : setFormData("company", value)
  \/ \E value \in FormTexts : setFormData("role", value)
  \/ \E value \in FormDates : setFormData("date", value)
  \/ handleSubmit
  \/ \E id \in {a.id : a \in Records}, answer \in BOOLEAN :
       handleDelete(id, answer)

SpecClient == InitClient /\ [][NextClient]_vars

\* the search box, the status select and the sort toggle, each followed by
\* the effect
setSearchTerm(term) ==
  /\ ~showModal
  /\ searchTerm' = term
  /\ event' = Event("setSearchTerm", 0, TRUE, "")
  /\ UNCHANGED <<serverVars, validated, fault, concVars, apps, loading,
                 showModal, editingApp, formData, filterStatus, sortOrder,
                 net, issued, applied>>
  /\ Rendered

setFilterStatus(status) ==
  /\ ~showModal
  /\ filterStatus' = status
  /\ event' = Event("setFilterStatus", 0, TRUE, "")
  /\ UNCHANGED <<serverVars, validated, fault, concVars, apps, loading,
                 showModal, editingApp, formData, searchTerm, sortOrder,
                 net, issued, applied>>
  /\ Rendered

setSortOrder ==
  /\ ~showModal
  /\ sortOrder' = IF sortOrder = "desc" THEN "asc" ELSE "desc"
  /\ event' = Event("setSortOrder", 0, TRUE, "")
  /\ UNCHANGED <<serverVars, validated, fault, concVars, apps, loading,
                 showModal, editingApp, formData, filterStatus, searchTerm,
                 net, issued, applied>>
  /\ Rendered

NextView ==
  \/ \E data \in Collections : Loaded(data)
  \/ \E term \in SearchTerms : setSearchTerm(term)
  \/ \E status \in FilterChoices : setFilterStatus(status)
  \/ setSortOrder

SpecView == InitClient /\ [][NextView]_vars

----------------------------------------------------------------------------
(* Vocabulary of the properties *)

Range(seq) == {seq[i] : i \in DOMAIN seq}

Ids(applications) == {applications[i].id : i \in DOMAIN applications}

Holders(applications, id) ==
  {i \in DOMAIN applications : applications[i].id = id}

\* applications without the elements at the positions in gone, order kept
RECURSIVE Without(_, _, _)
Without(applications, gone, i) ==
  IF i > Len(applications) THEN <<>>
  ELSE (IF i \in gone THEN <<>> ELSE <<applications[i]>>)
       \o Without(applications, gone, i + 1)

WithStatus(applications, status) ==
  Without(applications,
          {i \in DOMAIN applications : applications[i].status # status}, 1)

Count(seq, x) == Cardinality({i \in DOMAIN seq : seq[i] = x})

\* the same records, each as often, in whatever order
SameRecords(a, b) ==
  /\ Len(a) = Len(b)
  /\ \A x \in Range(a) \cup Range(b) : Count(a, x) = Count(b, x)

Ascending(applications) ==
  \A i, j \in DOMAIN applications :
    i < j => DateParse(applications[i].date) <= DateParse(applications[j].date)

Descending(applications) ==
  \A i, j \in DOMAIN applications :
    i < j => DateParse(applications[i].date) >= DateParse(applications[j].date)

HasText(v) == v.t = "string" /\ \E i \in DOMAIN v.s : v.s[i] # " "

Sent(op, code) == req.op = op /\ resp.code = code

----------------------------------------------------------------------------
(* Properties *)

\* C1: a Create that returns 201 returns a record whose id no record of the
\* collection had before the call, whatever the valid payload (one with an
\* id property included).
C1_CreatedIdIsFresh ==
  Sent("create", 201) => resp.body[1].id \notin Ids(pre)

\* C2: no two records of the persisted collection have the same id.
C2_IdsUnique ==
  \A i, j \in DOMAIN file : i # j => file[i].id # file[j].id

\* C3: a successful Update stores and returns a record whose id is the id of
\* the request path, whatever id the payload carries.
C3_UpdateKeepsId ==
  Sent("update", 200) =>
    /\ resp.body[1].id = ParseInt(req.param)
    /\ Ids(file) = Ids(pre)

\* C4: every persisted record has a non-empty company, a non-empty role, a
\* date that parses as a valid date and one of the four statuses.
C4_RecordsValid ==
  \A i \in DOMAIN file :
    /\ HasText(file[i].company)
    /\ HasText(file[i].role)
    /\ DateParse(file[i].date) # NaN
    /\ file[i].status \in {"Applied", "Interview", "Offer", "Rejected"}

\* C4 witness: a created record and an updated one are in the file.
C4_Witness ==
  /\ Sent("update", 200)
  /\ file # pre
  /\ \E i \in DOMAIN file : file[i].id \in Clock

CompanyMissing(body) ==
  \/ body.company.t = "undefined"
  \/ body.company.t = "string" /\ \A i \in DOMAIN body.company.s :
                                    body.company.s[i] = " "

\* C5: a Create whose company is missing, empty or blank returns 400 with
\* the company message among the errors, and the collection is unchanged.
C5_CreateWithoutCompany ==
  (req.op = "create" /\ CompanyMissing(req.body)) =>
    /\ resp.code = 400
    /\ "Company name is required" \in Range(resp.errors)
    /\ file = pre

\* C5 witness: a Create with a blank company was refused on a collection
\* that holds records.
C5_Witness ==
  /\ Sent("create", 400)
  /\ req.body.company = Str(<<" ", " ">>)
  /\ pre # <<>>

\* C6 as stated: every Update addressed to an id no record has returns 404
\* and leaves the collection unchanged.
C6_UpdateOfAbsentIs404 ==
  (req.op = "update" /\ ParseInt(req.param) \notin Ids(pre)) =>
    resp.code = 404 /\ file = pre

PassesRules(body) ==
  /\ HasText(body.company)
  /\ HasText(body.role)
  /\ DateParse(body.date) # NaN
  /\ body.status \in {"Applied", "Interview", "Offer", "Rejected"}

\* C6 amended: an Update addressed to an id no record has leaves the
\* collection unchanged and returns 404 when its payload passes validation,
\* 400 when it does not.
C6_UpdateOfAbsent ==
  (req.op = "update" /\ ParseInt(req.param) \notin Ids(pre)) =>
    /\ file = pre
    /\ resp.code = IF PassesRules(req.body) THEN 404 ELSE 400

\* C6 witness: a valid Update of an absent id was answered 404 on a
\* collection that holds records.
C6_Witness ==
  /\ Sent("update", 404)
  /\ req.param = <<"9", "x">>
  /\ pre # <<>>

\* C7: a Delete of an id a record holds removes exactly that record and
\* keeps every other record, in order; a Delete of an id no record holds
\* returns 404 and changes nothing; after a successful Delete the id is gone.
C7_DeleteRemovesOne ==
  req.op = "delete" =>
    LET id == ParseInt(req.param)
    IN  IF Holders(pre, id) = {}
        THEN resp.code = 404 /\ file = pre
        ELSE /\ resp.code = 200
             /\ \E i \in Holders(pre, id) : file = Without(pre, {i}, 1)
             /\ id \notin Ids(file)

\* what the status parameter selects
Selected(applications, status) ==
  IF status \in {"", "All"} THEN applications
  ELSE WithStatus(applications, status)

\* C8 as stated: List returns all records, or those whose status equals the
\* status parameter when one is given, by date ascending when sort is asc
\* and descending otherwise, also when no sort parameter is given.
C8_ListSortedByDefault ==
  req.op = "list" =>
    /\ resp.code = 200
    /\ SameRecords(resp.body, IF req.status = "" THEN pre
                              ELSE WithStatus(pre, req.status))
    /\ IF req.sort = "asc" THEN Ascending(resp.body)
       ELSE Descending(resp.body)

\* C8 amended: List returns all records when no status parameter is given
\* or it is All, else the records with that status; by date ascending when
\* sort is asc, descending for any other sort value, and in the persisted
\* order when no sort parameter is given.
C8_List ==
  req.op = "list" =>
    /\ resp.code = 200
    /\ SameRecords(resp.body, Selected(pre, req.status))
    /\ req.sort = "asc" => Ascending(resp.body)
    /\ req.sort \notin {"", "asc"} => Descending(resp.body)
    /\ req.sort = "" => resp.body = Selected(pre, req.status)

\* C8 witness: an ascending List of several records whose persisted order
\* is not ascending.
C8_Witness ==
  /\ Sent("list", 200)
  /\ req.sort = "asc"
  /\ Len(resp.body) > 2
  /\ ~Ascending(pre)

\* C9: List, Get and Stats leave the persisted collection as it is; Create
\* appends at the end, Update keeps the record at its position and Delete
\* keeps the order of the records that remain.
C9_PersistedOrder ==
  /\ req.op \in {"list", "get", "stats"} => file = pre
  /\ Sent("create", 201) => file = Append(pre, resp.body[1])
  /\ Sent("update", 200) =>
       /\ Len(file) = Len(pre)
       /\ \E i \in Holders(pre, ParseInt(req.param)) :
            /\ file[i] = resp.body[1]
            /\ \A j \in DOMAIN pre : j # i => file[j] = pre[j]
  /\ Sent("delete", 200) =>
       file = Without(pre, Holders(pre, resp.id), 1)

\* C9 witness: a sorted List whose answer is in another order than the file.
C9_Witness ==
  /\ Sent("list", 200)
  /\ req.sort = "desc"
  /\ resp.body # pre
  /\ Len(pre) > 2

AllDigits(cs) == \A i \in DOMAIN cs : DigitVal(cs[i]) # NaN

\* rate reads as the decimal number of hundredths h, two decimals, then %
ReadsAs(rate, h) ==
  LET n == Len(rate)
      whole == SubSeq(rate, 1, n - 4)
  IN  /\ n >= 5
      /\ rate[n] = "%"
      /\ rate[n - 3] = "."
      /\ AllDigits(whole) /\ AllDigits(SubSeq(rate, n - 2, n - 1))
      /\ Len(whole) > 1 => whole[1] # "0"
      /\ h = 100 * ParseDigits(whole, 0) + 10 * DigitVal(rate[n - 2])
             + DigitVal(rate[n - 1])

CountOf(applications, status) ==
  Cardinality({i \in DOMAIN applications : applications[i].status = status})

\* C10: Stats returns the number of records, the number of records of each
\* status and the offer rate, offers / total as a percentage to the nearest
\* hundredth with two decimals; "0%" on an empty collection, "20.00%" on 5
\* records with 1 offer.
C10_Stats ==
  req.op = "stats" =>
    LET st == resp.stats
        total == Len(pre)
        offers == CountOf(pre, "Offer")
    IN  /\ resp.code = 200
        /\ st.total = total
        /\ st.applied = CountOf(pre, "Applied")
        /\ st.interview = CountOf(pre, "Interview")
        /\ st.offer = offers
        /\ st.rejected = CountOf(pre, "Rejected")
        /\ total = 0 => st.successRate = <<"0", "%">>
        /\ total > 0 =>
             \E h \in 0 .. 10000 :
               /\ ReadsAs(st.successRate, h)
               /\ 2 * h * total - 20000 * offers \in (0 - total) .. total
        /\ (total = 5 /\ offers = 1) =>
             st.successRate = <<"2", "0", ".", "0", "0", "%">>

\* C10 witness: Stats of a collection whose rate is not a whole hundredth.
C10_Witness ==
  /\ Sent("stats", 200)
  /\ resp.stats.total = 6
  /\ resp.stats.offer = 1

\* C10 witness of the empty case is the Stats of the empty collection.
C10_EmptyWitness ==
  /\ Sent("stats", 200)
  /\ resp.stats.total = 0
  /\ resp.stats.successRate = <<"0", "%">>

Broken(body) ==
  [company |-> ~HasText(body.company),
   role |-> ~HasText(body.role),
   date |-> DateParse(body.date) = NaN,
   status |-> body.status \notin {"Applied", "Interview", "Offer", "Rejected"}]

Times(b) == IF b THEN 1 ELSE 0

\* C11: validation returns one message for each rule the payload breaks and
\* none for a rule it keeps, whatever subset of the four rules is broken,
\* and the payload is valid exactly when the list is empty.
C11_AllErrorsReported ==
  validated.done =>
    LET broken == Broken(validated.data)
        errors == validated.errors
    IN  /\ Count(errors, "Company name is required") = Times(broken.company)
        /\ Count(errors, "Role is required") = Times(broken.role)
        /\ Count(errors, "Valid date is required") = Times(broken.date)
        /\ Count(errors,
                 "Status must be one of: Applied, Interview, Offer, Rejected")
             = Times(broken.status)
        /\ Len(errors) = Times(broken.company) + Times(broken.role)
                         + Times(broken.date) + Times(broken.status)
        /\ validated.isValid <=> errors = <<>>

\* C11 witness: a payload that breaks the role and the status rule, and no
\* other, has been validated.
C11_Witness ==
  /\ validated.done
  /\ Len(validated.errors) = 2
  /\ ~HasText(validated.data.role)
  /\ validated.data.status = "applied"

\* C11 witness of the other end: a payload that breaks all four rules.
C11_AllFourWitness ==
  /\ validated.done
  /\ Len(validated.errors) = 4

\* C12: a Get of the id of the record a Create returned, with no Update or
\* Delete of it in between, returns 200 and that record; a Get of an id no
\* record holds returns 404.
C12_GetReturnsCreated ==
  req.op = "get" =>
    /\ (lastCreated # <<>> /\ ParseInt(req.param) = lastCreated[1].id) =>
         resp.code = 200 /\ resp.body = lastCreated
    /\ Holders(pre, ParseInt(req.param)) = {} => resp.code = 404

\* C13: a request during which the data file cannot be read or cannot be
\* written is answered with 500, whatever the endpoint.
C13_IoFailureIs500 ==
  fault # "none" => resp.code = 500

\* C20: a failed read during a Create, Update or Delete destroys no record:
\* the records the file held before the request are in it afterwards.
C20_FailedReadKeepsRecords ==
  (fault = "read" /\ req.op \in {"create", "update", "delete"}) =>
    Range(pre) \subseteq Range(file)

\* both calls have written and responded with success after reading the same
\* collection, d being the later to write
BothWrote(c, d) ==
  /\ c # d
  /\ calls[c].pc = "done" /\ calls[d].pc = "done"
  /\ calls[c].out.resp.code \in {200, 201}
  /\ calls[d].out.resp.code \in {200, 201}
  /\ calls[c].snap = calls[d].snap
  /\ wrote # <<>> /\ wrote[Len(wrote)] = d
  /\ c \in Range(wrote)

\* C14: when two write requests have read the same collection and both have
\* responded with success, the persisted collection is what the later write
\* made of the collection they read: the earlier write is not in it.
C14_LaterWriteWins ==
  \A c, d \in Calls :
    BothWrote(c, d) =>
      file = Route(calls[d].r, calls[d].now, calls[d].snap).file

\* C14 witness: a lost update. Two Creates read the same collection, both
\* were answered 201, and the record the earlier one returned is not in the
\* file.
C14_Witness ==
  \E c, d \in Calls :
    /\ BothWrote(c, d)
    /\ calls[c].r.op = "create" /\ calls[d].r.op = "create"
    /\ calls[c].out.resp.body[1] \notin Range(file)
    /\ calls[d].out.resp.body[1] \in Range(file)

\* the letters c and d are the same but for their case
SameLetter(c, d) ==
  c = d \/ {c, d} = {"A", "a"} \/ {c, d} = {"B", "b"}

\* text holds term as consecutive letters, whatever their case
Holds(text, term) ==
  \E k \in 0..(Len(text) - Len(term)) :
    \A i \in 1..Len(term) : SameLetter(text[k + i], term[i])

Shown(app) ==
  /\ filterStatus = "All" \/ app.status = filterStatus
  /\ searchTerm = <<>> \/ Holds(app.company, searchTerm)
                       \/ Holds(app.role, searchTerm)

\* C15: the rendered list holds exactly the records of the local collection
\* whose status is the filter's (every status when the filter is All) and
\* whose company or role contains the search term whatever the case of the
\* letters (every record when the term is empty), each as often as the
\* collection holds it, by descending date when the toggle is desc and by
\* ascending date when it is asc.
C15_RenderedList ==
  /\ \A app \in Range(apps) \cup Range(filteredApps) :
       Count(filteredApps, app) = IF Shown(app) THEN Count(apps, app) ELSE 0
  /\ sortOrder = "desc" => Descending(filteredApps)
  /\ sortOrder = "asc" => Ascending(filteredApps)

\* a status filter and a search term in capitals keep two of three records,
\* of different dates, oldest first
C15_Witness ==
  /\ filterStatus = "Applied"
  /\ searchTerm = <<"A">>
  /\ sortOrder = "asc"
  /\ Len(apps) = 3
  /\ Len(filteredApps) = 2
  /\ DateParse(filteredApps[1].date) < DateParse(filteredApps[2].date)

\* the search term in capitals finds a company written in small letters
C15_CaseWitness ==
  /\ searchTerm = <<"A", "B">>
  /\ \E i \in DOMAIN filteredApps : filteredApps[i].company = <<"a", "B">>

Empty(form) == form.company = <<>> \/ form.role = <<>> \/ form.date = ""

Mutation(r) == r.op \in {"post", "put"}

\* C16: no step sends a create or update request while the form's company,
\* role or date is empty, and a submission of such a form sends nothing and
\* leaves the form open and the local collection as it was.
C16_EmptyFieldSendsNothing ==
  [][ /\ Empty(formData) => \A r \in net' \ net : ~Mutation(r)
      /\ (event'.h = "handleSubmit" /\ Empty(formData)) =>
           /\ net' = net
           /\ showModal' = showModal
           /\ apps' = apps ]_vars

\* a form with a company and no role has been submitted
C16_Witness ==
  /\ event.h = "handleSubmit"
  /\ ~event.ok
  /\ formData.company # <<>>
  /\ formData.role = <<>>
  /\ showModal

\* C17: a reload request is sent only by the step that receives the success
\* response of a create, update or delete; the local collection changes
\* only in the step that receives the success response of a reload; and the
\* form closes only when the user closes it or when the success response of
\* its submission is received.
C17_CloseAndReloadOnSuccess ==
  [][ /\ \A r \in net' \ net :
           r.op = "get" => /\ event'.h = "response"
                           /\ event'.ok
                           /\ event'.op \in {"post", "put", "delete"}
      /\ apps' # apps => event' = Event("response", 0, TRUE, "get")
      /\ (showModal /\ ~showModal') =>
           \/ event'.h = "closeModal"
           \/ event'.h = "response" /\ event'.ok
                                    /\ event'.op \in {"post", "put"} ]_vars

\* the first two parts of C17 on their own: reloads follow the success of a
\* create, update or delete, and only a reload's data changes the collection
C17_ReloadOnSuccess ==
  [][ /\ \A r \in net' \ net :
           r.op = "get" => /\ event'.h = "response"
                           /\ event'.ok
                           /\ event'.op \in {"post", "put", "delete"}
      /\ apps' # apps => event' = Event("response", 0, TRUE, "get") ]_vars

\* a submission failed, and the form it came from is closed
C17_ClosedAfterFailure ==
  /\ event.h = "response"
  /\ ~event.ok
  /\ Mutation(event)
  /\ ~showModal

\* C18: a delete request for a record is sent only by the step in which the
\* user confirms the deletion of that record, and a declined confirmation
\* sends no request, starts no reload and leaves the local collection.
C18_DeleteAfterConfirm ==
  [][ /\ \A r \in net' \ net :
           r.op = "delete" =>
             event' = Event("handleDelete", r.id, TRUE, "delete")
      /\ (event'.h = "handleDelete" /\ ~event'.ok) =>
           /\ net' = net
           /\ issued' = issued
           /\ loading' = loading
           /\ apps' = apps ]_vars

\* a confirmed delete is on its way, and the delete of another record has
\* just been declined
C18_Witness ==
  /\ event.h = "handleDelete"
  /\ ~event.ok
  /\ \E r \in net : r.op = "delete" /\ r.id # event.id

\* C19: at most one request of the client is without a response at any
\* time, and the reload responses reach setApps in the order in which their
\* requests were sent.
C19_OneRequestAtATime ==
  /\ Cardinality(net) <= 1
  /\ \A i, j \in DOMAIN applied : i < j => applied[i] < applied[j]

\* two requests are without a response
C19_TwoInFlight == Cardinality(net) >= 2

\* the response of an earlier reload is applied after that of a later one
C19_StaleReload ==
  \E i, j \in DOMAIN applied : i < j /\ applied[i] > applied[j]

====
